---- MODULE Spec2Model ----
(***************************************************************************)
(* Model of add_milestone3.py: the recursive unit breakdown                *)
(* (break_down_unit_recursive), its caller create_expanded_cellml_file,    *)
(* and the variable-to-OPB mapping loop (map_variable_units_to_opb).       *)
(*                                                                         *)
(* Exponents and multipliers are Python floats in the source; the model    *)
(* draws them from small sets of integers, on which float arithmetic is    *)
(* exact.                                                                  *)
(***************************************************************************)
EXTENDS Integers, Sequences, FiniteSets, TLC

VARIABLES
    units_dict,   \* the registry handed to break_down_unit_recursive (original_units)
    pc,           \* "idle", "call", "returned", "expand", "breaking", "written"; "off" while map_variable_units_to_opb runs
    unit_name,    \* the name of the outermost break_down_unit_recursive call / the unit being expanded
    stack,        \* the Python call stack of break_down_unit_recursive, outermost frame first
    retval,       \* the list returned by the outermost call
    todo,         \* create_expanded_cellml_file: the units of original_units not yet processed
    root,         \* create_expanded_cellml_file: the <units> elements appended to the new root
    model_units,  \* map_variable_units_to_opb: the units the model defines, name -> Units object
    baseline_units, \* the baseline dict, as its items() in insertion order
    opb_map,      \* the dict load_opb_mappings returns, name -> list of OPB codes
    variables,    \* var.units() of the variables gone through so far: <<>> for None, <<n>> for a Units object named n
    mpc,          \* map_variable_units_to_opb: "off", "loop", "returned", or "raised" if an exception left it
    processed,    \* the number of variables the two loops have gone through
    mapped,       \* the counter mapped
    total,        \* the counter total
    mapping_details,   \* the list mapping_details
    unmapped_details,  \* the list unmapped_details
    units_obj,    \* the local units_obj of the last iteration: <<>> for None, <<u>> for an object u
    checked       \* the baseline names Units.compatible was called on in the last iteration

breakVars == <<units_dict, pc, unit_name, stack, retval, todo, root>>
mapVars == <<model_units, baseline_units, opb_map, variables, mpc, processed, mapped, total,
             mapping_details, unmapped_details, units_obj, checked>>
vars == <<breakVars, mapVars>>

-----------------------------------------------------------------------------
(* Bounds of the model *)

\* total number of <unit> components in the registry
MaxComponents == 3
\* call depth at which the model stops following a recursion
MaxDepth == 5
\* number of variables map_variable_units_to_opb goes through
MaxVariables == 2
\* number of units in the baseline file
MaxBaseline == 2

-----------------------------------------------------------------------------
(* The inputs *)

\* names that the registry may define, in the order parse_cellml_units meets them
DefNames == <<"unitA", "unitB">>
\* a name the registry never defines
BaseNames == {"metre"}
Names == {DefNames[k] : k \in 1..Len(DefNames)} \cup BaseNames

\* exponent, multiplier and prefix attributes of one <unit> element, as
\* parse_cellml_units reads them (exponent and multiplier default to 1, prefix to '')
Shapes ==
    {[exponent |-> 1, multiplier |-> 1, prefix |-> ""],
     [exponent |-> -1, multiplier |-> 1, prefix |-> ""],
     [exponent |-> 2, multiplier |-> 1, prefix |-> ""],
     [exponent |-> 1, multiplier |-> 2, prefix |-> ""],
     [exponent |-> 1, multiplier |-> 1, prefix |-> "kilo"]}

\* the dict parse_cellml_units appends to components
Component(u, s) ==
    [unit |-> u, exponent |-> s.exponent, multiplier |-> s.multiplier, prefix |-> s.prefix]

Components == {Component(u, s) : u \in Names, s \in Shapes}

ComponentLists(n) == [1..n -> Components]

\* units_dict is one of the registries parse_cellml_units can return over these
\* names and components, up to exchanging the two names: the second unit is
\* never the longer one
IsRegistry(d) ==
    LET a == DefNames[1]
        b == DefNames[2]
    IN  \/ d = <<>>
        \/ \E n \in 0..MaxComponents : \E s \in ComponentLists(n) : d = (a :> s)
        \/ \E m \in 0..MaxComponents : \E n \in m..(MaxComponents - m) :
              \E s \in ComponentLists(n), t \in ComponentLists(m) : d = (a :> s) @@ (b :> t)

-----------------------------------------------------------------------------
(* break_down_unit_recursive *)

\* an undefined name taken for a unit without components
BaseUnitEntryEmpty(name) == <<>>

\* the base-unit entry returned for a name the registry does not define
BaseUnitEntry(name) ==
    <<[unit |-> name, exponent |-> 1, multiplier |-> 1, prefix |-> ""]>>

\* what the call returns when unit_name is already in visited
CycleReturnLeaf(name) == BaseUnitEntry(name)
CycleReturn(name) == <<>>

\* visited.add(unit_name)
VisitedNotAdded(visited, name) == visited
VisitedAdd(visited, name) == visited \cup {name}

\* the caller's visited after a recursive call returns: the call was given
\* visited.copy(), so what the callee added is not seen
VisitedShared(own, callee) == callee
VisitedAfterCall(own, callee) == own

\* the frame a call starts with: the guards before the loop have run
NewFrame(name, visited) ==
    IF name \in visited
    THEN [unit_name |-> name, visited |-> visited, at |-> "cycle", i |-> 0,
          result |-> CycleReturn(name)]
    ELSE IF name \notin DOMAIN units_dict
    THEN [unit_name |-> name, visited |-> VisitedAdd(visited, name), at |-> "base", i |-> 0,
          result |-> BaseUnitEntry(name)]
    ELSE [unit_name |-> name, visited |-> VisitedAdd(visited, name), at |-> "loop", i |-> 1,
          result |-> <<>>]

\* the registry after one term has been folded into result, had the entry
\* appended been the component's own dict, which later merges write to
RegistryAliased(d, name, i, result) ==
    IF result # <<>>
    THEN [d EXCEPT ![name][i].exponent = result[Len(result)].exponent]
    ELSE d

\* the registry after one term has been folded into result: lines 102-126 read
\* component and sub_comp and write only to dicts created at 120-125
RegistryAfterCombine(d, name, i, result) == d

\* a search that never finds the entry, so every contribution is appended
FindUnitNone(result, unit, k) == 0

\* index of the first entry of result naming unit, 0 if none
RECURSIVE FindUnit(_, _, _)
FindUnit(result, unit, k) ==
    IF k > Len(result) THEN 0
    ELSE IF result[k].unit = unit THEN k
    ELSE FindUnit(result, unit, k + 1)

CombineExponentsSum(sub_exponent, component_exponent) == sub_exponent + component_exponent
CombineExponents(sub_exponent, component_exponent) == sub_exponent * component_exponent

\* one pass of the inner loop: fold one sub_comp into result
CombineOne(result, sub_comp, component) ==
    LET new_exponent == CombineExponents(sub_comp.exponent, component.exponent)
        new_multiplier == sub_comp.multiplier * component.multiplier
        new_prefix == IF component.prefix # "" THEN component.prefix ELSE sub_comp.prefix
        k == FindUnit(result, sub_comp.unit, 1)
    IN  IF k # 0
        THEN [result EXCEPT ![k].exponent = @ + new_exponent,
                            ![k].multiplier = @ * new_multiplier]
        ELSE Append(result, [unit |-> sub_comp.unit, exponent |-> new_exponent,
                             multiplier |-> new_multiplier, prefix |-> new_prefix])

\* the inner loop over sub_components
RECURSIVE Combine(_, _, _)
Combine(result, sub_components, component) ==
    IF sub_components = <<>> THEN result
    ELSE Combine(CombineOne(result, Head(sub_components), component),
                 Tail(sub_components), component)

Top == stack[Len(stack)]

\* the frame on top has reached a return statement
Returning(f) ==
    \/ f.at \in {"cycle", "base"}
    \/ f.at = "loop" /\ f.i > Len(units_dict[f.unit_name])

\* a direct call break_down_unit_recursive(name, units_dict)
Call ==
    /\ pc = "idle"
    /\ \E name \in Names :
        /\ unit_name' = name
        /\ stack' = <<NewFrame(name, {})>>
    /\ pc' = "call"
    /\ UNCHANGED <<units_dict, retval, todo, root>>
    /\ UNCHANGED mapVars

\* the recursive call for the component the loop is at, with a copy of visited
Recurse ==
    /\ pc \in {"call", "breaking"}
    /\ stack # <<>>
    /\ Top.at = "loop"
    /\ Top.i <= Len(units_dict[Top.unit_name])
    /\ Len(stack) < MaxDepth
    /\ stack' = Append(stack, NewFrame(units_dict[Top.unit_name][Top.i].unit, Top.visited))
    /\ UNCHANGED <<units_dict, pc, unit_name, retval, todo, root>>
    /\ UNCHANGED mapVars

\* a recursive call returns: the caller folds sub_components into its result
ReturnToCaller ==
    /\ pc \in {"call", "breaking"}
    /\ Len(stack) > 1
    /\ Returning(Top)
    /\ LET caller == stack[Len(stack) - 1]
           component == units_dict[caller.unit_name][caller.i]
           result == Combine(caller.result, Top.result, component)
       IN  /\ stack' = [SubSeq(stack, 1, Len(stack) - 1) EXCEPT
                        ![Len(stack) - 1].visited = VisitedAfterCall(caller.visited, Top.visited),
                        ![Len(stack) - 1].result = result,
                        ![Len(stack) - 1].i = caller.i + 1]
           /\ units_dict' = RegistryAfterCombine(units_dict, caller.unit_name, caller.i, result)
    /\ UNCHANGED <<pc, unit_name, retval, todo, root>>
    /\ UNCHANGED mapVars

\* the outermost direct call returns
ReturnDirect ==
    /\ pc = "call"
    /\ Len(stack) = 1
    /\ Returning(Top)
    /\ retval' = Top.result
    /\ stack' = <<>>
    /\ pc' = "returned"
    /\ UNCHANGED <<units_dict, unit_name, todo, root>>
    /\ UNCHANGED mapVars

-----------------------------------------------------------------------------
(* create_expanded_cellml_file *)

\* the test that decides whether a unit is copied as it is
IsSimple(components) ==
    Len(components) = 1 /\ components[1].multiplier = 1

\* the <unit> elements written for a broken-down unit
WrittenUnitsAll(broken_down) == broken_down
WrittenUnits(broken_down) ==
    SelectSeq(broken_down, LAMBDA comp : comp.exponent # 0)

\* original_units.items() in insertion order
ItemNames ==
    SelectSeq(DefNames, LAMBDA n : n \in DOMAIN units_dict)

\* create_expanded_cellml_file starts its loop over original_units
StartExpand ==
    /\ pc = "idle"
    /\ pc' = "expand"
    /\ todo' = ItemNames
    /\ UNCHANGED <<units_dict, unit_name, stack, retval, root>>
    /\ UNCHANGED mapVars

\* a simple unit: the original element is appended unchanged
CopySimple ==
    /\ pc = "expand"
    /\ todo # <<>>
    /\ IsSimple(units_dict[Head(todo)])
    /\ root' = Append(root, [name |-> Head(todo), copied |-> TRUE,
                             units |-> units_dict[Head(todo)]])
    /\ todo' = Tail(todo)
    /\ UNCHANGED <<units_dict, pc, unit_name, stack, retval>>
    /\ UNCHANGED mapVars

\* any other unit: break_down_unit_recursive(unit_name, original_units) is called
BreakDown ==
    /\ pc = "expand"
    /\ todo # <<>>
    /\ ~IsSimple(units_dict[Head(todo)])
    /\ unit_name' = Head(todo)
    /\ stack' = <<NewFrame(Head(todo), {})>>
    /\ pc' = "breaking"
    /\ UNCHANGED <<units_dict, retval, todo, root>>
    /\ UNCHANGED mapVars

\* the call returns and the new <units> element is built from broken_down
WriteExpanded ==
    /\ pc = "breaking"
    /\ Len(stack) = 1
    /\ Returning(Top)
    /\ retval' = Top.result
    /\ root' = Append(root, [name |-> unit_name, copied |-> FALSE,
                             units |-> WrittenUnits(Top.result)])
    /\ stack' = <<>>
    /\ todo' = Tail(todo)
    /\ pc' = "expand"
    /\ UNCHANGED <<units_dict, unit_name>>
    /\ UNCHANGED mapVars

\* the loop is over and the file is written
Finish ==
    /\ pc = "expand"
    /\ todo = <<>>
    /\ pc' = "written"
    /\ UNCHANGED <<units_dict, unit_name, stack, retval, todo, root>>
    /\ UNCHANGED mapVars

-----------------------------------------------------------------------------

\* map_variable_units_to_opb has not been called
MapOff ==
    /\ model_units = <<>>
    /\ baseline_units = <<>>
    /\ opb_map = <<>>
    /\ variables = <<>>
    /\ mpc = "off"
    /\ processed = 0
    /\ mapped = 0
    /\ total = 0
    /\ mapping_details = <<>>
    /\ unmapped_details = <<>>
    /\ units_obj = <<>>
    /\ checked = <<>>

Init ==
    /\ IsRegistry(units_dict)
    /\ pc = "idle"
    /\ unit_name = ""
    /\ stack = <<>>
    /\ retval = <<>>
    /\ todo = <<>>
    /\ root = <<>>
    /\ MapOff

Next ==
    \/ Call
    \/ Recurse
    \/ ReturnToCaller
    \/ ReturnDirect
    \/ StartExpand
    \/ CopySimple
    \/ BreakDown
    \/ WriteExpanded
    \/ Finish

Spec == Init /\ [][Next]_vars

\* The registries whose components all have exponent 1 and no prefix.  Which
\* calls are made depends on the unit names of the components alone (and, in
\* create_expanded_cellml_file, on the multiplier of a single component), so
\* these registries produce every call tree the others do.
FairInit ==
    /\ Init
    /\ \A n \in DOMAIN units_dict : \A k \in DOMAIN units_dict[n] :
        units_dict[n][k].exponent = 1 /\ units_dict[n][k].prefix = ""

\* The interpreter keeps running the call it is in: a step that can be taken is taken.
FairSpec == FairInit /\ [][Next]_vars /\ WF_vars(Next)

-----------------------------------------------------------------------------
(* map_variable_units_to_opb *)

SI_BASE_UNITS_OPB ==
    ("ampere" :> "OPB_00318") @@ ("kelvin" :> "OPB_00293") @@ ("kilogram" :> "OPB_01226")
    @@ ("metre" :> "OPB_00269") @@ ("mole" :> "OPB_00425") @@ ("second" :> "OPB_00402")

\* A libcellml Units object, as Units.compatible sees it: its base-unit
\* exponents (pairs <<base unit, exponent>>) and its scale.
DimensionlessForm == [exponents |-> {}, multiplier |-> 1]
Forms ==
    {DimensionlessForm,
     [exponents |-> {<<"kilogram", 1>>, <<"metre", 1>>, <<"second", -2>>}, multiplier |-> 1],
     [exponents |-> {<<"kilogram", 1>>, <<"metre", -1>>, <<"second", -2>>}, multiplier |-> 1]}

\* libcellml.Units("dimensionless")
DimensionlessUnits == DimensionlessForm

\* a test that also compares the scale factors
CompatibleSameScale(a, b) == a.exponents = b.exponents /\ a.multiplier = b.multiplier

\* libcellml.Units.compatible(a, b), when it does not raise
Compatible(a, b) == a.exponents = b.exponents

\* the names a model may define units under, and the names of the baseline file
ModelNames == {"metre", "newton"}
BaselineNames == {"newton", "pascal", "metre"}

\* var.units(): <<>> for None, <<n>> for a Units object named n
VariableUnits == {<<>>, <<"dimensionless">>, <<"metre">>, <<"newton">>}

\* the tables load_opb_mappings may return
OpbTables ==
    {<<>>, ("newton" :> <<"OPB_00034">>) @@ ("pascal" :> <<>>)}

\* the Units objects a model may define under a name
ModelForms(name) ==
    IF name \in DOMAIN SI_BASE_UNITS_OPB
    THEN {f \in Forms : <<"metre", -1>> \in f.exponents}
    ELSE Forms

\* model.units(i) for i in range(model.unitsCount()), by name
IsModelUnits(m) ==
    \E D \in SUBSET ModelNames : \E f \in [D -> Forms] :
        /\ \A n \in D : f[n] \in ModelForms(n)
        /\ m = f

\* the baseline entry Units.compatible may raise on
MayRaise == {"pascal"}

\* baseline_units.items(): distinct names in insertion order; raises marks an
\* entry Units.compatible raises on
IsBaseline(b) ==
    \E n \in 0..MaxBaseline : \E names \in [1..n -> BaselineNames] :
        /\ \A i, j \in 1..n : i # j => names[i] # names[j]
        /\ \E forms \in [1..n -> Forms] : \E bad \in BOOLEAN :
            /\ bad => \E k \in 1..n : names[k] \in MayRaise
            /\ b = [k \in 1..n |-> [name |-> names[k], units |-> forms[k],
                                    raises |-> (bad /\ names[k] \in MayRaise)]]

\* lines 335-338: the name of the variable's unit
UnitNameOf(unit_obj) ==
    IF unit_obj # <<>> THEN unit_obj[1] ELSE "dimensionless"

\* line 343
IsDimensionlessOnlyNone(unit_obj) == unit_obj = <<>>
IsDimensionless(unit_obj) ==
    UnitNameOf(unit_obj) = "dimensionless" \/ unit_obj = <<>>

\* line 396
IsSIBaseUnlessDefined(name) ==
    /\ name \in DOMAIN SI_BASE_UNITS_OPB
    /\ name \notin DOMAIN model_units
    /\ \A k \in 1..Len(baseline_units) : baseline_units[k].name # name
IsSIBase(name) == name \in DOMAIN SI_BASE_UNITS_OPB

\* the record built without looking the codes up
OpbGetNone(base_name) == <<>>

\* opb_map.get(base_name): <<>> for None, <<codes>> for a list
OpbGet(base_name) ==
    IF base_name \in DOMAIN opb_map THEN <<opb_map[base_name]>> ELSE <<>>

\* the result of a scan when an exception leaves the loop
Propagated == -1

RECURSIVE ScanFrom(_, _)

\* Units.compatible raised on entry k: "except: continue"
OnRaisePropagate(u, k) == Propagated
OnRaise(u, k) == ScanFrom(u, k + 1)

\* the scan from entry k on, keeping the last compatible entry instead of breaking
RECURSIVE ScanFromNoBreak(_, _)
ScanFromNoBreak(u, k) ==
    IF k > Len(baseline_units) THEN 0
    ELSE IF ScanFromNoBreak(u, k + 1) # 0 THEN ScanFromNoBreak(u, k + 1)
    ELSE IF ~baseline_units[k].raises /\ Compatible(u, baseline_units[k].units) THEN k
    ELSE 0

\* the for loop over baseline_units.items() from entry k on: the index of the
\* entry it breaks at, 0 if it runs to the end
ScanFrom(u, k) ==
    IF k > Len(baseline_units) THEN 0
    ELSE IF baseline_units[k].raises THEN OnRaise(u, k)
    ELSE IF Compatible(u, baseline_units[k].units) THEN k
    ELSE ScanFrom(u, k + 1)

\* the scan falling back on the first baseline entry when none is compatible
FirstMatchOrFirst(u) ==
    IF ScanFrom(u, 1) = 0 /\ baseline_units # <<>> THEN 1 ELSE ScanFrom(u, 1)

\* the scan taking a compatible entry without OPB codes for no match
FirstMatchWithCodes(u) ==
    LET m == ScanFrom(u, 1)
    IN  IF m > 0 /\ (baseline_units[m].name \notin DOMAIN opb_map
                      \/ opb_map[baseline_units[m].name] = <<>>)
        THEN 0
        ELSE m

\* lines 353-368 and 433-448: the entry the loop over the baseline stops at
FirstMatch(u) == ScanFrom(u, 1)

\* the baseline names the loop called Units.compatible on
CheckedBy(u) ==
    LET m == FirstMatch(u)
        last == IF m > 0 THEN m ELSE Len(baseline_units)
    IN  [k \in 1..last |-> baseline_units[k].name]

\* baseline_units[name]
BaselineGet(name) ==
    (CHOOSE e \in {baseline_units[k] : k \in 1..Len(baseline_units)} : e.name = name).units

InBaseline(name) == \E k \in 1..Len(baseline_units) : baseline_units[k].name = name

\* lines 409-417: the Units object of unit_name, <<>> for None
ResolveBaselineFirst(name) ==
    IF InBaseline(name) THEN <<BaselineGet(name)>>
    ELSE IF name \in DOMAIN model_units THEN <<model_units[name]>>
    ELSE <<>>
ResolveOrDimensionless(name) ==
    IF name \in DOMAIN model_units THEN <<model_units[name]>>
    ELSE IF InBaseline(name) THEN <<BaselineGet(name)>>
    ELSE <<DimensionlessUnits>>
Resolve(name) ==
    IF name \in DOMAIN model_units THEN <<model_units[name]>>
    ELSE IF InBaseline(name) THEN <<BaselineGet(name)>>
    ELSE <<>>

MappedRecord(variable, unit, mapped_to, opb_code) ==
    [variable |-> variable, unit |-> unit, mapped_to |-> mapped_to, opb_code |-> opb_code]

UnmappedRecord(variable, unit, reason) ==
    [variable |-> variable, unit |-> unit, reason |-> reason]

\* the dimensionless branch: lines 343-393
MapDimensionless ==
    /\ mpc = "loop"
    /\ processed < MaxVariables
    /\ \E unit_obj \in VariableUnits, ctor_raises \in BOOLEAN :
        /\ IsDimensionless(unit_obj)
        /\ variables' = Append(variables, unit_obj)
        /\ LET var == processed + 1
               m == FirstMatch(DimensionlessUnits)
           IN  IF ctor_raises \/ m = Propagated
               THEN \* the outer except: the fallback record
                    /\ mapping_details' = Append(mapping_details,
                            MappedRecord(var, "dimensionless", "dimensionless", <<>>))
                    /\ mapped' = mapped + 1
                    /\ total' = (total + 1) + 1
                    /\ checked' = IF ctor_raises THEN <<>> ELSE CheckedBy(DimensionlessUnits)
               ELSE /\ mapping_details' = Append(mapping_details,
                            IF m # 0
                            THEN MappedRecord(var, "dimensionless", baseline_units[m].name,
                                              OpbGet(baseline_units[m].name))
                            ELSE MappedRecord(var, "dimensionless", "dimensionless", <<>>))
                    /\ mapped' = mapped + 1
                    /\ total' = total + 1
                    /\ checked' = CheckedBy(DimensionlessUnits)
    /\ processed' = processed + 1
    /\ UNCHANGED <<model_units, baseline_units, opb_map, mpc, unmapped_details, units_obj>>
    /\ UNCHANGED breakVars

\* the SI base unit branch: lines 395-407
MapSIBase ==
    /\ mpc = "loop"
    /\ processed < MaxVariables
    /\ \E unit_obj \in VariableUnits :
        /\ ~IsDimensionless(unit_obj)
        /\ IsSIBase(UnitNameOf(unit_obj))
        /\ variables' = Append(variables, unit_obj)
        /\ mapping_details' = Append(mapping_details,
                MappedRecord(processed + 1, UnitNameOf(unit_obj), UnitNameOf(unit_obj),
                             <<(<<SI_BASE_UNITS_OPB[UnitNameOf(unit_obj)]>>)>>))
    /\ mapped' = mapped + 1
    /\ total' = total + 1
    /\ processed' = processed + 1
    /\ checked' = <<>>
    /\ UNCHANGED <<model_units, baseline_units, opb_map, mpc, unmapped_details, units_obj>>
    /\ UNCHANGED breakVars

\* the unit is defined nowhere: lines 409-427
MapNotFound ==
    /\ mpc = "loop"
    /\ processed < MaxVariables
    /\ \E unit_obj \in VariableUnits :
        /\ ~IsDimensionless(unit_obj)
        /\ ~IsSIBase(UnitNameOf(unit_obj))
        /\ Resolve(UnitNameOf(unit_obj)) = <<>>
        /\ variables' = Append(variables, unit_obj)
        /\ unmapped_details' = Append(unmapped_details,
                UnmappedRecord(processed + 1, UnitNameOf(unit_obj), "Unit not found"))
    /\ units_obj' = <<>>
    /\ total' = total + 1
    /\ processed' = processed + 1
    /\ checked' = <<>>
    /\ UNCHANGED <<model_units, baseline_units, opb_map, mpc, mapped, mapping_details>>
    /\ UNCHANGED breakVars

\* the unit is resolved and the baseline is scanned: lines 409-456
MapScan ==
    /\ mpc = "loop"
    /\ processed < MaxVariables
    /\ \E unit_obj \in VariableUnits :
        /\ ~IsDimensionless(unit_obj)
        /\ ~IsSIBase(UnitNameOf(unit_obj))
        /\ Resolve(UnitNameOf(unit_obj)) # <<>>
        /\ variables' = Append(variables, unit_obj)
        /\ LET name == UnitNameOf(unit_obj)
               u == Resolve(name)[1]
               m == FirstMatch(u)
           IN  /\ units_obj' = <<u>>
               /\ checked' = CheckedBy(u)
               /\ IF m = Propagated
                  THEN \* no handler around the loop: the exception leaves the function
                       /\ mpc' = "raised"
                       /\ UNCHANGED <<mapped, mapping_details, unmapped_details>>
                  ELSE IF m # 0
                  THEN /\ mapping_details' = Append(mapping_details,
                            MappedRecord(processed + 1, name, baseline_units[m].name,
                                         OpbGet(baseline_units[m].name)))
                       /\ mapped' = mapped + 1
                       /\ UNCHANGED <<mpc, unmapped_details>>
                  ELSE /\ unmapped_details' = Append(unmapped_details,
                            UnmappedRecord(processed + 1, name,
                                           "No compatible baseline unit found"))
                       /\ UNCHANGED <<mpc, mapped, mapping_details>>
    /\ total' = total + 1
    /\ processed' = processed + 1
    /\ UNCHANGED <<model_units, baseline_units, opb_map>>
    /\ UNCHANGED breakVars

\* both loops are over: line 458
MapReturn ==
    /\ mpc = "loop"
    /\ mpc' = "returned"
    /\ UNCHANGED <<model_units, baseline_units, opb_map, variables, processed, mapped, total,
                   mapping_details, unmapped_details, units_obj, checked>>
    /\ UNCHANGED breakVars

\* map_variable_units_to_opb(model, baseline_units, opb_map) has run lines 320-324
MapInit ==
    /\ units_dict = <<>>
    /\ pc = "off"
    /\ unit_name = ""
    /\ stack = <<>>
    /\ retval = <<>>
    /\ todo = <<>>
    /\ root = <<>>
    /\ IsModelUnits(model_units)
    /\ IsBaseline(baseline_units)
    /\ opb_map \in OpbTables
    /\ variables = <<>>
    /\ mpc = "loop"
    /\ processed = 0
    /\ mapped = 0
    /\ total = 0
    /\ mapping_details = <<>>
    /\ unmapped_details = <<>>
    /\ units_obj = <<>>
    /\ checked = <<>>

MapNext ==
    \/ MapDimensionless
    \/ MapSIBase
    \/ MapNotFound
    \/ MapScan
    \/ MapReturn

MapSpec == MapInit /\ [][MapNext]_vars

\* units of several dimensions, each in two scales (metre and kilometre,
\* a ratio and a percentage, newton and kilonewton, ...)
CompatForms ==
    {[exponents |-> e, multiplier |-> x] :
        e \in {{}, {<<"metre", 1>>}, {<<"metre", 2>>}, {<<"second", 1>>},
               {<<"metre", 1>>, <<"second", -1>>},
               {<<"kilogram", 1>>, <<"metre", 1>>, <<"second", -2>>}},
        x \in {1, 1000}}

\* map_variable_units_to_opb on a model that defines at most the unit newton
\* and a baseline of one entry on which Units.compatible does not raise
CompatInit ==
    /\ units_dict = <<>>
    /\ pc = "off"
    /\ unit_name = ""
    /\ stack = <<>>
    /\ retval = <<>>
    /\ todo = <<>>
    /\ root = <<>>
    /\ \/ model_units = <<>>
       \/ \E a \in CompatForms : model_units = ("newton" :> a)
    /\ \E name \in {"newton", "pascal"} : \E b \in CompatForms :
        baseline_units = <<[name |-> name, units |-> b, raises |-> FALSE]>>
    /\ opb_map = <<>>
    /\ variables = <<>>
    /\ mpc = "loop"
    /\ processed = 0
    /\ mapped = 0
    /\ total = 0
    /\ mapping_details = <<>>
    /\ unmapped_details = <<>>
    /\ units_obj = <<>>
    /\ checked = <<>>

CompatSpec == CompatInit /\ [][MapNext]_vars

-----------------------------------------------------------------------------
(* Properties of break_down_unit_recursive and create_expanded_cellml_file *)

\* the units a definition refers to
RefsOf(n) ==
    IF n \in DOMAIN units_dict
    THEN {units_dict[n][k].unit : k \in DOMAIN units_dict[n]}
    ELSE {}

RECURSIVE ReachableIn(_, _)
ReachableIn(S, k) ==
    IF k = 0 THEN S ELSE ReachableIn(S \cup UNION {RefsOf(n) : n \in S}, k - 1)

\* the units reached from n through one reference or more
ReachableFrom(n) == ReachableIn(RefsOf(n), Cardinality(Names))

\* no unit of the registry refers to itself, directly or through other units
Acyclic == \A n \in DOMAIN units_dict : n \notin ReachableFrom(n)

\* the sum, over the expansion paths from u to b, of the product of the
\* exponents along the path (defined for an acyclic registry)
RECURSIVE PathSum(_, _)
RECURSIVE PathSumOver(_, _, _)
PathSum(u, b) ==
    IF u \notin DOMAIN units_dict
    THEN (IF u = b THEN 1 ELSE 0)
    ELSE PathSumOver(units_dict[u], b, 1)
PathSumOver(components, b, k) ==
    IF k > Len(components) THEN 0
    ELSE components[k].exponent * PathSum(components[k].unit, b)
         + PathSumOver(components, b, k + 1)

\* an outermost call has returned
CallReturned == unit_name # "" /\ stack = <<>>

\* C1: break_down_unit_recursive terminates for every registry and name, cyclic
\* registries included: every call that has started returns, and the recursion
\* never reaches the depth at which the model stops following it.
C1_Terminates ==
    /\ [](Len(stack) < MaxDepth)
    /\ (stack # <<>>) ~> (stack = <<>>)

\* a call on a unit that refers to itself through another unit has returned
C1_Witness ==
    /\ pc = "returned"
    /\ unit_name = "unitA"
    /\ "unitB" \in RefsOf("unitA")
    /\ "unitA" \in RefsOf("unitB")

\* C2 as stated: a call on a unit already in visited returns that unit as its
\* own leaf term (one term naming it, exponent 1).
C2_CycleReturnsLeaf ==
    \A k \in 1..Len(stack) :
        stack[k].at = "cycle"
            => /\ Len(stack[k].result) = 1
               /\ stack[k].result[1].unit = stack[k].unit_name
               /\ stack[k].result[1].exponent = 1

\* C2 as amended: a call on a unit already in visited returns the empty list
\* without expanding further, and the cyclic reference adds nothing to the
\* caller's result.
C2_CycleReturnsEmpty ==
    /\ [](\A k \in 1..Len(stack) :
            stack[k].at = "cycle"
                => /\ stack[k].unit_name \in stack[k].visited
                   /\ stack[k].result = <<>>
                   /\ k = Len(stack))
    /\ [][(Len(stack) > 1 /\ Top.at = "cycle" /\ Len(stack') = Len(stack) - 1)
            => stack'[Len(stack')].result = stack[Len(stack) - 1].result]_vars

\* a call has found its unit in visited
C2_Witness ==
    /\ Len(stack) > 1
    /\ Top.at = "cycle"
    /\ stack[Len(stack) - 1].result # <<>>

\* C3: for an acyclic registry every entry of the returned list names a base
\* unit and carries the sum over the expansion paths to it of the product of
\* the exponents along the path, and every base unit a path leads to has an entry.
C3_ExponentIsPathSum ==
    (CallReturned /\ Acyclic) =>
        /\ \A k \in 1..Len(retval) :
            /\ retval[k].unit \notin DOMAIN units_dict
            /\ retval[k].exponent = PathSum(unit_name, retval[k].unit)
        /\ \A b \in ({unit_name} \cup ReachableFrom(unit_name)) \ DOMAIN units_dict :
            \E k \in 1..Len(retval) : retval[k].unit = b

\* unitA reaches metre directly and through unitB squared: metre has exponent 3
C3_Witness ==
    /\ pc = "returned"
    /\ Acyclic
    /\ unit_name = "unitA"
    /\ "unitB" \in DOMAIN units_dict
    /\ \E k \in 1..Len(units_dict["unitA"]) :
        units_dict["unitA"][k].unit = "unitB" /\ units_dict["unitA"][k].exponent = 2
    /\ retval = <<[unit |-> "metre", exponent |-> 3, multiplier |-> 1, prefix |-> ""]>>

\* C4 as stated: the list break_down_unit_recursive returns has no entry with
\* exponent zero.
C4_NoZeroExponentReturned ==
    CallReturned => \A k \in 1..Len(retval) : retval[k].exponent # 0

\* C4 as amended: break_down_unit_recursive may return an entry with exponent
\* zero; create_expanded_cellml_file drops it, so no unit it writes from a
\* breakdown has a component with exponent zero, and a unit whose terms all
\* cancel is written with no component.
C4_NoZeroExponentWritten ==
    /\ \A k \in 1..Len(root) :
        ~root[k].copied => \A j \in 1..Len(root[k].units) : root[k].units[j].exponent # 0
    /\ (pc = "expand" /\ CallReturned /\ root # <<>> /\ root[Len(root)].name = unit_name
        /\ ~root[Len(root)].copied)
            => (\A j \in 1..Len(retval) :
                    retval[j].exponent # 0
                        => \E i \in 1..Len(root[Len(root)].units) :
                               root[Len(root)].units[i] = retval[j])

\* a unit whose terms cancel was broken down to a zero entry and written empty
C4_Witness ==
    /\ root # <<>>
    /\ ~root[Len(root)].copied
    /\ root[Len(root)].name = unit_name
    /\ root[Len(root)].units = <<>>
    /\ retval # <<>>
    /\ \A k \in 1..Len(retval) : retval[k].exponent = 0

-----------------------------------------------------------------------------
(* Properties of map_variable_units_to_opb *)

\* the records of variable v in the two lists
MappedOf(v) == {k \in 1..Len(mapping_details) : mapping_details[k].variable = v}
UnmappedOf(v) == {k \in 1..Len(unmapped_details) : unmapped_details[k].variable = v}

SINames == {"ampere", "kelvin", "kilogram", "metre", "mole", "second"}

\* variable v has a unit that is neither dimensionless nor an SI base unit
PlainUnit(v) ==
    /\ v \in 1..Len(variables)
    /\ variables[v] # <<>>
    /\ variables[v][1] \notin SINames \cup {"dimensionless"}

\* the baseline defines name
BaselineDefines(name) == \E k \in 1..Len(baseline_units) : baseline_units[k].name = name

\* Units.compatible(units_obj, entry k) returned True in the last iteration
CompatibleWith(k) ==
    /\ ~baseline_units[k].raises
    /\ units_obj[1].exponents = baseline_units[k].units.exponents

\* the last iteration resolved its unit and scanned the baseline
LastScanned == PlainUnit(processed) /\ units_obj # <<>>

\* C5: when the resolved unit is compatible with several baseline entries, the
\* record's mapped_to is the earliest of them in insertion order, never a later
\* one; the record is determined by the inputs.
C5_FirstMatchWins ==
    (LastScanned /\ \E k \in 1..Len(baseline_units) : CompatibleWith(k)) =>
        /\ UnmappedOf(processed) = {}
        /\ Cardinality(MappedOf(processed)) = 1
        /\ \A r \in MappedOf(processed) :
            \E k \in 1..Len(baseline_units) :
                /\ CompatibleWith(k)
                /\ \A j \in 1..(k - 1) : ~CompatibleWith(j)
                /\ mapping_details[r].mapped_to = baseline_units[k].name

\* two baseline entries are compatible with the unit and the first is recorded
C5_Witness ==
    /\ LastScanned
    /\ Len(baseline_units) >= 2
    /\ CompatibleWith(1)
    /\ CompatibleWith(2)
    /\ mapping_details # <<>>
    /\ mapping_details[Len(mapping_details)].variable = processed
    /\ mapping_details[Len(mapping_details)].mapped_to = baseline_units[1].name

\* C6: a variable with no unit, or with the unit "dimensionless", has exactly
\* one record in mapping_details and none in unmapped_details, whatever the
\* baseline and the OPB table hold.
C6_DimensionlessAlwaysMapped ==
    \A v \in 1..Len(variables) :
        (variables[v] = <<>> \/ variables[v] = <<"dimensionless">>)
            => /\ Cardinality(MappedOf(v)) = 1
               /\ UnmappedOf(v) = {}

\* both kinds of dimensionless variable were mapped against an empty baseline
C6_Witness ==
    /\ baseline_units = <<>>
    /\ DOMAIN opb_map = {}
    /\ variables = << <<>>, <<"dimensionless">> >>
    /\ Len(mapping_details) = 2
    /\ unmapped_details = <<>>

\* C7: a variable whose unit is not dimensionless, not an SI base name and is
\* defined by neither the model nor the baseline is unmapped with the reason
\* "Unit not found", and Units.compatible is not called for it.
C7_UnknownUnitNotFound ==
    \A v \in 1..Len(variables) :
        (/\ PlainUnit(v)
         /\ variables[v][1] \notin DOMAIN model_units
         /\ ~BaselineDefines(variables[v][1]))
            => /\ MappedOf(v) = {}
               /\ Cardinality(UnmappedOf(v)) = 1
               /\ \A r \in UnmappedOf(v) :
                    /\ unmapped_details[r].reason = "Unit not found"
                    /\ unmapped_details[r].unit = variables[v][1]
               /\ (v = processed => checked = <<>>)

\* an unknown unit was met while the baseline had entries to scan
C7_Witness ==
    /\ processed >= 1
    /\ variables[processed] = <<"newton">>
    /\ "newton" \notin DOMAIN model_units
    /\ ~BaselineDefines("newton")
    /\ Len(baseline_units) >= 1
    /\ UnmappedOf(processed) # {}

\* C8: no exception leaves map_variable_units_to_opb, and every variable it
\* has gone through has exactly one record, in mapping_details or in
\* unmapped_details, also when Units.compatible raises on a baseline entry.
C8_EveryVariableClassifiedOnce ==
    /\ mpc # "raised"
    /\ processed = Len(variables)
    /\ \A v \in 1..processed : Cardinality(MappedOf(v)) + Cardinality(UnmappedOf(v)) = 1
    /\ Len(mapping_details) + Len(unmapped_details) = processed

\* the function returned after a scan in which Units.compatible raised
C8_Witness ==
    /\ mpc = "returned"
    /\ processed >= 2
    /\ LastScanned
    /\ \E k \in 1..Len(checked) : baseline_units[k].raises
    /\ mapping_details # <<>>
    /\ unmapped_details # <<>>

\* C9: a name the model defines is resolved to the model's definition, also
\* when the baseline defines it too; the baseline's definition is used only
\* for a name the model does not define.
C9_ModelDefinitionFirst ==
    PlainUnit(processed) =>
        LET name == variables[processed][1]
        IN  /\ name \in DOMAIN model_units => units_obj = <<model_units[name]>>
            /\ (name \notin DOMAIN model_units /\ BaselineDefines(name))
                => \E k \in 1..Len(baseline_units) :
                    /\ baseline_units[k].name = name
                    /\ units_obj = <<baseline_units[k].units>>

\* the model and the baseline define the name differently
C9_Witness ==
    /\ PlainUnit(processed)
    /\ variables[processed][1] \in DOMAIN model_units
    /\ \E k \in 1..Len(baseline_units) :
        /\ baseline_units[k].name = variables[processed][1]
        /\ baseline_units[k].units # model_units[variables[processed][1]]
    /\ units_obj = <<model_units[variables[processed][1]]>>

\* C10: a variable whose unit is named after an SI base unit is mapped to that
\* name with the one code of SI_BASE_UNITS_OPB, whatever the model, the
\* baseline and the OPB table define, and the baseline is not scanned for it.
C10_SIBaseFastPath ==
    \A v \in 1..Len(variables) :
        (variables[v] # <<>> /\ variables[v][1] \in SINames)
            => /\ UnmappedOf(v) = {}
               /\ Cardinality(MappedOf(v)) = 1
               /\ \A r \in MappedOf(v) :
                    /\ mapping_details[r].unit = variables[v][1]
                    /\ mapping_details[r].mapped_to = variables[v][1]
                    /\ mapping_details[r].opb_code
                         = <<(<<SI_BASE_UNITS_OPB[variables[v][1]]>>)>>
               /\ (v = processed => checked = <<>>)

\* metre is defined by the model and by the baseline and still takes the fast path
C10_Witness ==
    /\ processed >= 1
    /\ variables[processed] = <<"metre">>
    /\ "metre" \in DOMAIN model_units
    /\ BaselineDefines("metre")
    /\ mapping_details # <<>>
    /\ mapping_details[Len(mapping_details)]
         = [variable |-> processed, unit |-> "metre", mapped_to |-> "metre",
            opb_code |-> <<(<<"OPB_00269">>)>>]

\* C11: a variable whose unit is resolved and is compatible with no baseline
\* entry has one record in unmapped_details with the reason "No compatible
\* baseline unit found", no record in mapping_details, and the mapped counter
\* does not count it.
C11_NoCompatibleUnmapped ==
    (LastScanned /\ \A k \in 1..Len(baseline_units) : ~CompatibleWith(k)) =>
        /\ MappedOf(processed) = {}
        /\ Cardinality(UnmappedOf(processed)) = 1
        /\ \A r \in UnmappedOf(processed) :
            /\ unmapped_details[r].reason = "No compatible baseline unit found"
            /\ unmapped_details[r].unit = variables[processed][1]
        /\ mapped = Len(mapping_details)
        /\ mapped + Len(unmapped_details) = processed

\* newton is defined by the model and the two baseline entries have other dimensions
C11_Witness ==
    /\ LastScanned
    /\ Len(baseline_units) >= 2
    /\ Len(checked) = Len(baseline_units)
    /\ \A k \in 1..Len(baseline_units) :
        ~baseline_units[k].raises /\ ~CompatibleWith(k)
    /\ unmapped_details # <<>>
    /\ unmapped_details[Len(unmapped_details)].variable = processed
    /\ unmapped_details[Len(unmapped_details)].reason = "No compatible baseline unit found"

\* the entry of the OPB table for a baseline name, <<>> when it has none
TableEntry(name) == IF name \in DOMAIN opb_map THEN <<opb_map[name]>> ELSE <<>>

\* the baseline entries Units.compatible accepts for the dimensionless unit
DimensionlessMatches ==
    {k \in 1..Len(baseline_units) :
        ~baseline_units[k].raises /\ baseline_units[k].units.exponents = {}}

\* variable v has no unit or the unit "dimensionless"
DimensionlessVariable(v) ==
    /\ v \in 1..Len(variables)
    /\ (variables[v] = <<>> \/ variables[v] = <<"dimensionless">>)

\* the record naming the first baseline entry Units.compatible accepts for the
\* dimensionless unit, or "dimensionless" without codes when it accepts none
ScannedRecord(v) ==
    IF DimensionlessMatches # {}
    THEN LET k == CHOOSE i \in DimensionlessMatches : \A j \in DimensionlessMatches : i <= j
         IN  [variable |-> v, unit |-> "dimensionless",
              mapped_to |-> baseline_units[k].name,
              opb_code |-> TableEntry(baseline_units[k].name)]
    ELSE [variable |-> v, unit |-> "dimensionless", mapped_to |-> "dimensionless",
          opb_code |-> <<>>]

\* the record naming "dimensionless" without codes
PlainDimensionlessRecord(v) ==
    [variable |-> v, unit |-> "dimensionless", mapped_to |-> "dimensionless",
     opb_code |-> <<>>]

\* C12: the record of a dimensionless variable names the first baseline entry
\* that Units.compatible accepts for the dimensionless unit, with that name's
\* entry of the OPB table; in every other case (the baseline was scanned and no
\* entry was accepted, or the dimensionless unit could not be built and no
\* entry was tested) it names "dimensionless" and has no codes.
C12_DimensionlessRecord ==
    \A v \in 1..Len(variables) :
        DimensionlessVariable(v)
            => /\ MappedOf(v) # {}
               /\ \A r \in MappedOf(v) :
                    /\ mapping_details[r] \in {ScannedRecord(v), PlainDimensionlessRecord(v)}
                    /\ (v = processed /\ checked # <<>>)
                            => mapping_details[r] = ScannedRecord(v)
                    /\ (v = processed /\ checked = <<>>)
                            => mapping_details[r] = PlainDimensionlessRecord(v)

\* the second baseline entry is the first dimensionless one and has codes
C12_Witness ==
    /\ DimensionlessVariable(processed)
    /\ Len(baseline_units) >= 2
    /\ DimensionlessMatches = {2}
    /\ checked # <<>>
    /\ mapping_details # <<>>
    /\ mapping_details[Len(mapping_details)].variable = processed
    /\ mapping_details[Len(mapping_details)].mapped_to = baseline_units[2].name
    /\ mapping_details[Len(mapping_details)].opb_code # <<>>

\* the OPB table has no code for a baseline name: no entry, or an empty list
NoCodesFor(name) == name \notin DOMAIN opb_map \/ opb_map[name] = <<>>

\* C13: a variable whose resolved unit is compatible with a baseline entry for
\* which the OPB table has an empty list or no entry is recorded in
\* mapping_details under that entry's name, counted by mapped, and has no
\* record in unmapped_details.
C13_MatchWithoutCodesIsMapped ==
    \A k \in 1..Len(baseline_units) :
        (/\ LastScanned
         /\ CompatibleWith(k)
         /\ \A j \in 1..(k - 1) : ~CompatibleWith(j)
         /\ NoCodesFor(baseline_units[k].name))
            => /\ UnmappedOf(processed) = {}
               /\ \E r \in MappedOf(processed) :
                    /\ mapping_details[r].mapped_to = baseline_units[k].name
                    /\ mapping_details[r].opb_code
                         = (IF baseline_units[k].name \in DOMAIN opb_map
                            THEN <<(<<>>)>> ELSE <<>>)
               /\ mapped = Len(mapping_details)
               /\ mapped >= 1

\* the table lists pascal with no code and the variable was mapped to pascal
C13_Witness ==
    /\ LastScanned
    /\ "pascal" \in DOMAIN opb_map
    /\ opb_map["pascal"] = <<>>
    /\ mapping_details # <<>>
    /\ mapping_details[Len(mapping_details)].variable = processed
    /\ mapping_details[Len(mapping_details)].mapped_to = "pascal"
    /\ mapping_details[Len(mapping_details)].opb_code = <<(<<>>)>>
    /\ unmapped_details = <<>>

\* the base units of a form and the exponent of one of them
KeysOf(f) == {p[1] : p \in f.exponents}
ExponentIn(f, base) == (CHOOSE p \in f.exponents : p[1] = base)[2]

\* both forms have the same base units, each with the same exponent
SameExponents(a, b) ==
    /\ KeysOf(a) = KeysOf(b)
    /\ \A base \in KeysOf(a) : ExponentIn(a, base) = ExponentIn(b, base)

\* the unit objects the call holds: the model's, the baseline's and the
\* dimensionless unit
FormsInPlay ==
    {model_units[n] : n \in DOMAIN model_units}
        \cup {baseline_units[k].units : k \in 1..Len(baseline_units)}
        \cup {DimensionlessUnits}

\* C14: Units.compatible is true exactly when the two units have the same base
\* units with equal exponents, whatever their multipliers; it is reflexive and
\* symmetric and accepts any two dimensionless units; and a scanned variable is
\* mapped exactly when its unit and the baseline entry have the same exponents.
C14_CompatibleByExponents ==
    /\ \A a, b \in FormsInPlay :
        /\ Compatible(a, b) <=> SameExponents(a, b)
        /\ Compatible(a, a)
        /\ Compatible(a, b) <=> Compatible(b, a)
        /\ (KeysOf(a) = {} /\ KeysOf(b) = {}) => Compatible(a, b)
    /\ LastScanned =>
        /\ MappedOf(processed) # {} <=> SameExponents(units_obj[1], baseline_units[1].units)
        /\ UnmappedOf(processed) = {} <=> SameExponents(units_obj[1], baseline_units[1].units)

\* the model's kilometre-scaled unit was mapped to the baseline's unscaled one
C14_Witness ==
    /\ LastScanned
    /\ units_obj[1].exponents = {<<"metre", 1>>}
    /\ units_obj[1].multiplier = 1000
    /\ baseline_units[1].units = [exponents |-> {<<"metre", 1>>}, multiplier |-> 1]
    /\ mapping_details # <<>>
    /\ mapping_details[Len(mapping_details)].variable = processed
    /\ mapping_details[Len(mapping_details)].mapped_to = baseline_units[1].name

\* C15: every entry of a list break_down_unit_recursive returns, from the
\* outermost call or from a recursive one, names a unit the registry does not
\* define, for cyclic registries as well.
C15_ResultNamesBaseUnits ==
    /\ CallReturned => \A k \in 1..Len(retval) : retval[k].unit \notin DOMAIN units_dict
    /\ \A f \in 1..Len(stack) :
        \A k \in 1..Len(stack[f].result) : stack[f].result[k].unit \notin DOMAIN units_dict

\* unitA and unitB refer to each other and unitA was still reduced to metre
C15_Witness ==
    /\ pc = "returned"
    /\ unit_name = "unitA"
    /\ "unitB" \in RefsOf("unitA")
    /\ "unitA" \in RefsOf("unitB")
    /\ retval # <<>>
    /\ \A k \in 1..Len(retval) : retval[k].unit = "metre"

\* the sum of the exponents of the terms of a definition that name base unit b
RECURSIVE OwnExponent(_, _, _)
OwnExponent(components, b, k) ==
    IF k > Len(components) THEN 0
    ELSE (IF components[k].unit = b THEN components[k].exponent ELSE 0)
         + OwnExponent(components, b, k + 1)

\* the unit the call was made on is defined and all its terms name base units
OverBaseUnits ==
    /\ unit_name \in DOMAIN units_dict
    /\ \A k \in 1..Len(units_dict[unit_name]) :
        units_dict[unit_name][k].unit \notin DOMAIN units_dict

\* the list a second decomposition returns for a unit defined by the entries
\* of a first one: every entry names a base unit, which returns its leaf term
RECURSIVE DecomposeAgain(_, _, _)
DecomposeAgain(result, entries, k) ==
    IF k > Len(entries) THEN result
    ELSE DecomposeAgain(Combine(result, BaseUnitEntry(entries[k].unit), entries[k]),
                        entries, k + 1)

\* C16: for a unit whose terms all name base units the returned list has one
\* entry for each base unit named, with the sum of the exponents of the terms
\* naming it, and decomposing a unit defined by the returned list returns the
\* same list.
C16_OverBaseUnitsIsOwnMapping ==
    (CallReturned /\ OverBaseUnits) =>
        /\ {retval[k].unit : k \in 1..Len(retval)} = RefsOf(unit_name)
        /\ \A j, k \in 1..Len(retval) : retval[j].unit = retval[k].unit => j = k
        /\ \A k \in 1..Len(retval) :
            retval[k].exponent = OwnExponent(units_dict[unit_name], retval[k].unit, 1)
        /\ DecomposeAgain(<<>>, retval, 1) = retval

\* unitA names metre in two terms, with exponents adding up to 3, and another
\* base unit in a third
C16_Witness ==
    /\ pc = "returned"
    /\ unit_name = "unitA"
    /\ OverBaseUnits
    /\ Len(units_dict["unitA"]) = 3
    /\ Len(retval) = 2
    /\ \E k \in 1..2 : retval[k].unit = "metre" /\ retval[k].exponent = 3

\* C17: a call on a name the registry does not define, outermost or recursive,
\* returns one entry naming that unit with exponent 1, multiplier 1 and no
\* prefix; it never takes the cycle guard and never loops.
C17_UndefinedNameIsLeaf ==
    /\ \A f \in 1..Len(stack) :
        stack[f].unit_name \notin DOMAIN units_dict
            => /\ stack[f].at = "base"
               /\ stack[f].result = <<[unit |-> stack[f].unit_name, exponent |-> 1,
                                        multiplier |-> 1, prefix |-> ""]>>
    /\ (CallReturned /\ unit_name \notin DOMAIN units_dict)
            => retval = <<[unit |-> unit_name, exponent |-> 1, multiplier |-> 1,
                           prefix |-> ""]>>

\* unitB is not defined by a registry that defines unitA, and a call on it returned
C17_Witness ==
    /\ pc = "returned"
    /\ unit_name = "unitB"
    /\ DOMAIN units_dict = {"unitA"}
    /\ retval = <<[unit |-> "unitB", exponent |-> 1, multiplier |-> 1, prefix |-> ""]>>

\* the power of ten an SI prefix stands for
PrefixFactor(prefix) == IF prefix = "kilo" THEN 1000 ELSE 1

\* C18 as stated: no entry of a returned list carries a prefix string, and the
\* multiplier of an entry is the product of the sub-result's multiplier, the
\* term's multiplier and the power of ten of the term's prefix (here for a unit
\* of one term naming a base unit, whose sub-result has multiplier 1).
C18_PrefixFoldedIntoScale ==
    /\ \A f \in 1..Len(stack) :
        \A k \in 1..Len(stack[f].result) : stack[f].result[k].prefix = ""
    /\ CallReturned => \A k \in 1..Len(retval) : retval[k].prefix = ""
    /\ (CallReturned /\ OverBaseUnits /\ Len(units_dict[unit_name]) = 1)
            => /\ Len(retval) = 1
               /\ retval[1].multiplier
                    = 1 * units_dict[unit_name][1].multiplier
                        * PrefixFactor(units_dict[unit_name][1].prefix)

\* a definition of exactly one term with exponent 1, multiplier 1 and no prefix
PassThroughAlias(components) ==
    /\ Len(components) = 1
    /\ components[1].exponent = 1
    /\ components[1].multiplier = 1
    /\ components[1].prefix = ""

\* C19 as stated: a unit create_expanded_cellml_file has copied unchanged has
\* exactly one term with exponent 1, multiplier 1 and no prefix; a unit of any
\* other shape is written from its decomposition.
C19_CopiedOnlyIfAlias ==
    \A k \in 1..Len(root) :
        root[k].copied <=> PassThroughAlias(units_dict[root[k].name])

\* the units of the calls on the stack up to frame f: the expansion path
PathTo(f) == {stack[j].unit_name : j \in 1..f}

\* C20: the visited set of every call holds exactly the units on the path from
\* the outermost call to it, never a unit met only while a sibling term was
\* expanded; a call is cut short only when its unit is on the path above it;
\* hence every term naming a base unit contributes, also when an earlier term
\* has reached the same base unit.
C20_VisitedPerBranch ==
    \A f \in 1..Len(stack) :
        /\ stack[f].visited = PathTo(f)
        /\ stack[f].at = "cycle" <=> stack[f].unit_name \in PathTo(f - 1)
        /\ stack[f].at = "loop" =>
            LET components == units_dict[stack[f].unit_name]
                done == SubSeq(components, 1, stack[f].i - 1)
            IN  (\A j \in 1..Len(done) : done[j].unit \notin DOMAIN units_dict)
                    => \A j \in 1..Len(done) :
                        \E k \in 1..Len(stack[f].result) :
                            /\ stack[f].result[k].unit = done[j].unit
                            /\ stack[f].result[k].exponent = OwnExponent(done, done[j].unit, 1)

\* unitA has reached metre through unitB in its first term and names metre in
\* its second: the second call on metre is not cut short
C20_Witness ==
    /\ Len(stack) = 2
    /\ stack[1].unit_name = "unitA"
    /\ stack[1].i = 2
    /\ units_dict["unitA"][1].unit = "unitB"
    /\ "unitB" \in DOMAIN units_dict
    /\ "metre" \in RefsOf("unitB")
    /\ units_dict["unitA"][2].unit = "metre"
    /\ stack[2].unit_name = "metre"
    /\ stack[2].at = "base"
    /\ stack[2].visited = {"unitA", "metre"}

\* C21 as stated: after every variable the counters agree with the records:
\* mapped is the length of mapping_details, total is the number of variables
\* gone through, and total - mapped is the length of unmapped_details, also
\* after the fallback taken when the dimensionless unit cannot be built.
C21_CountersAgreeWithRecords ==
    /\ mapped = Len(mapping_details)
    /\ total = processed
    /\ total - mapped = Len(unmapped_details)

\* no two entries of a list name the same unit
OneEntryPerUnit(result) ==
    \A j, k \in 1..Len(result) : result[j].unit = result[k].unit => j = k

\* C22: the list of every call, while it is built and when it is returned,
\* has at most one entry for each unit name: a contribution to a unit the list
\* already names is merged into that entry, at every level of the recursion.
C22_OneEntryPerBaseUnit ==
    /\ \A f \in 1..Len(stack) : OneEntryPerUnit(stack[f].result)
    /\ CallReturned => OneEntryPerUnit(retval)
    /\ \A f \in 1..Len(stack) :
        stack[f].at = "loop" =>
            \A j \in 1..(stack[f].i - 1) :
                units_dict[stack[f].unit_name][j].unit \notin DOMAIN units_dict
                    => Cardinality({k \in 1..Len(stack[f].result) :
                            stack[f].result[k].unit
                                = units_dict[stack[f].unit_name][j].unit}) = 1

\* unitA, called for a term of unitB, has merged its two terms naming metre
\* into one entry
C22_Witness ==
    /\ Len(stack) = 2
    /\ stack[1].unit_name = "unitB"
    /\ stack[2].unit_name = "unitA"
    /\ stack[2].at = "loop"
    /\ stack[2].i = 3
    /\ units_dict["unitA"][1].unit = "metre"
    /\ units_dict["unitA"][2].unit = "metre"
    /\ Len(stack[2].result) = 1
    /\ stack[2].result[1].exponent
         = units_dict["unitA"][1].exponent + units_dict["unitA"][2].exponent

\* the list a call on name with the given visited set returns, computed from
\* the registry alone
RECURSIVE DecomposeFrom(_, _)
RECURSIVE DecomposeTerms(_, _, _, _)
DecomposeFrom(name, visited) ==
    IF name \in visited THEN <<>>
    ELSE IF name \notin DOMAIN units_dict
    THEN <<[unit |-> name, exponent |-> 1, multiplier |-> 1, prefix |-> ""]>>
    ELSE DecomposeTerms(name, visited \cup {name}, 1, <<>>)
DecomposeTerms(name, visited, k, result) ==
    IF k > Len(units_dict[name]) THEN result
    ELSE DecomposeTerms(name, visited, k + 1,
            Combine(result, DecomposeFrom(units_dict[name][k].unit, visited),
                    units_dict[name][k]))

\* the result of decomposing name alone
DecomposeAlone(name) == DecomposeFrom(name, {})

\* C23: no step of break_down_unit_recursive changes units_dict, for cyclic
\* registries too; every call returns what a call on that unit alone returns,
\* and every unit create_expanded_cellml_file has written from a breakdown,
\* after the breakdowns of the units before it, holds that result.
C23_RegistryUnchanged ==
    /\ [][units_dict' = units_dict]_vars
    /\ [](CallReturned => retval = DecomposeAlone(unit_name))
    /\ [](\A k \in 1..Len(root) :
            ~root[k].copied
                => root[k].units = SelectSeq(DecomposeAlone(root[k].name),
                                             LAMBDA comp : comp.exponent # 0))

\* unitA and unitB refer to each other and both were broken down, one after
\* the other
C23_Witness ==
    /\ pc = "written"
    /\ Len(root) = 2
    /\ ~root[1].copied
    /\ ~root[2].copied
    /\ "unitB" \in RefsOf("unitA")
    /\ "unitA" \in RefsOf("unitB")
    /\ root[1].units # <<>>
    /\ root[2].units # <<>>

====
